---- MODULE Spec2Model ----
(***************************************************************************)
(* A state-machine model of the C++ wrapper layer of readcon-core          *)
(* (include/readcon-core.hpp): ConFrame and its lazy cache, the free       *)
(* functions read_first_frame / read_all_frames, ConFrameBuilder and       *)
(* ConFrameIterator.  The parse/format engine behind the opaque handles    *)
(* (the rkr_* / con_frame_iterator_* / free_* functions) is not part of    *)
(* the header; it is modelled from the engine contract of spec.md, sec. 6. *)
(*                                                                         *)
(* Conventions: a handle is a natural number, 0 is the null pointer.  A    *)
(* nullable C pointer to a value is a sequence of length <= 1 (<<>> is     *)
(* null).  Reals are stood for by small integers.                          *)
(***************************************************************************)
EXTENDS Integers, Sequences, FiniteSets, TLC

\* ------------------------------------------------------------------ bounds
\* ConFrame objects that exist at the same time.
MaxFrames == 2
\* Frames in the file on disk.
MaxFile == 2
\* Engine snapshot requests made for one handle.
MaxCalls == 2

\* Engine frame handles a behaviour can allocate.
MaxHandles == 4
\* Iterator cursors (ConFrameIterator::Iterator objects) that exist at the
\* same time.
MaxCursors == 2
\* ConFrameWriter objects that exist at the same time.
MaxWriters == 1
\* Frames the output files take, all together.
MaxWritten == 2
\* ConFrameBuilder objects that exist at the same time.
MaxBuilders == 2
\* Engine builder handles a behaviour can allocate.
MaxBuilderHandles == 2
\* Atoms one builder accumulates.
MaxAtoms == 4

NullHandle == 0
Handles == 1..MaxHandles
FrameIds == 1..MaxFrames
BuilderIds == 1..MaxBuilders
CursorIds == 1..MaxCursors
\* ConFrameWriter slots, and as many engine writer sessions.
WriterIds == 1..MaxWriters
\* The engine's one iterator session handle (CConFrameIterator *).
SessionHandle == 1
BuilderHandles == 1..MaxBuilderHandles

\* The value of a std::array<double, 3> that was default-initialised and
\* never assigned (cell_cache_, angles_cache_ before materialization).
Indeterminate == <<-1, -1, -1>>

\* ------------------------------------------------- engine data (spec.md 6)
\* One atom of the engine's transient snapshot record (CAtom).
CAtom(z, id, m, fixed, hasv) ==
    [atomic_number |-> z, x |-> 10 * id + 1, y |-> 10 * id + 2,
     z |-> 10 * id + 3, atom_id |-> id, mass |-> m, is_fixed |-> fixed,
     vx |-> IF hasv THEN 1 ELSE 0, vy |-> IF hasv THEN 2 ELSE 0,
     vz |-> IF hasv THEN 3 ELSE 0, has_velocity |-> hasv]

\* Frames as the engine decodes them from disk: the snapshot record (CFrame)
\* and the four header lines (prebox 0, prebox 1, postbox 0, postbox 1), a
\* line the engine reports absent being <<>>.
DiskA ==
    [cell |-> <<10, 11, 12>>, angles |-> <<90, 80, 70>>, has_velocities |-> FALSE,
     atoms |-> <<CAtom(29, 0, 64, TRUE, FALSE), CAtom(29, 1, 64, FALSE, FALSE)>>,
     hdr |-> <<<<"pre0">>, <<"pre1">>, <<"post0">>, <<"post1">>>>]
DiskB ==
    [cell |-> <<5, 6, 7>>, angles |-> <<90, 90, 60>>, has_velocities |-> TRUE,
     atoms |-> <<CAtom(8, 0, 16, FALSE, TRUE), CAtom(1, 1, 1, FALSE, TRUE)>>,
     hdr |-> <<<<>>, <<"generated">>, <<"X">>, <<"">>>>]
DiskFrames == {DiskA, DiskB}

\* What the engine holds behind a handle it never handed out.
NoData ==
    [cell |-> <<0, 0, 0>>, angles |-> <<0, 0, 0>>, has_velocities |-> FALSE,
     atoms |-> <<>>, hdr |-> <<<<>>, <<>>, <<>>, <<>>>>]

\* Frames with every subset of the four header lines absent; a line that is
\* present is text, or (prebox line 1) the empty string.
HeaderFrames ==
    {[DiskA EXCEPT !.hdr = <<a, b, c, d>>] :
        a \in {<<>>, <<"pre0">>}, b \in {<<>>, <<"">>},
        c \in {<<>>, <<"X">>}, d \in {<<>>, <<"post1">>}} \cup DiskFrames

\* Files of at most MaxFile frames over a set of frame contents.
FilesOver(S) == UNION {[1..n -> S] : n \in 0..MaxFile}

\* --------------------------------------------------------------- variables
VARIABLES
    file,       \* the frames of the file on disk, in on-disk order
    hst,        \* engine: frame handle -> "none" | "live" | "freed"
    hdata,      \* engine: frame handle -> the frame it holds
    hrel,       \* engine: frame handle -> times it was passed to free_rkr_frame
    snapCalls,  \* engine: handle (0 too) -> rkr_frame_to_c_frame calls received
    snapFails,  \* engine: handle (0 too) -> of those, the ones answered null
    hdrCalls,   \* engine: handle -> header-line calls received, per line
    frames,     \* ConFrame objects: slot -> fields
    ret,        \* what the last operation returned or threw
    builders,   \* ConFrameBuilder objects: slot -> fields
    ebst,       \* engine: builder handle -> "none" | "live" | "consumed" | "released"
    ebatoms,    \* engine: builder handle -> the atoms it accepted, in order
    ebcons,     \* engine: builder handle -> times rkr_frame_builder_build took it
    ebrel,      \* engine: builder handle -> times free_rkr_frame_builder took it
    builtFrom,  \* engine: frame handle -> the builder handle it was built from (0: none)
    iterobj,    \* the ConFrameIterator object
    sess,       \* engine: the iterator session: "none" | "open" | "freed",
                \* frames decoded, times released
    cursors,    \* ConFrameIterator::Iterator objects: slot -> fields
    yielded,    \* cursor slot -> the frame handles it has held, in order
    allread,    \* the handles of the Frames the last read_all_frames returned
    writers,    \* ConFrameWriter objects: slot -> fields
    wsess       \* engine: writer session -> "none" | "open" | "freed", times
                \* released, the frame handles written to its file in order

frameVars == <<file, hst, hdata, hrel, snapCalls, snapFails, hdrCalls, frames>>
builderVars == <<builders, ebst, ebatoms, ebcons, ebrel, builtFrom>>
iterVars == <<iterobj, sess, cursors, yielded, allread>>
writerVars == <<writers, wsess>>
vars == <<file, hst, hdata, hrel, snapCalls, snapFails, hdrCalls, frames, ret,
          builders, ebst, ebatoms, ebcons, ebrel, builtFrom,
          iterobj, sess, cursors, yielded, allread, writers, wsess>>

\* ------------------------------------------------------------ ConFrame
\* A ConFrame right after ConFrame(RKRConFrame *): only the handle is set.
NewConFrame(h) ==
    [alive |-> TRUE, frame_handle_ |-> h, is_cached_ |-> FALSE,
     atoms_cache_ |-> <<>>, cell_cache_ |-> Indeterminate,
     angles_cache_ |-> Indeterminate, prebox_header_cache_ |-> <<"", "">>,
     postbox_header_cache_ |-> <<"", "">>, has_velocities_cache_ |-> FALSE]

\* A slot that holds no object.
NoFrame == [NewConFrame(NullHandle) EXCEPT !.alive = FALSE]

\* The transient buffers of an operation that obtained none: c_frames the
\* snapshot records it obtained, c_strs the header-line buffers (<<>>: a null
\* buffer), and per release function the buffers that were passed to it.
NoTransients ==
    [c_frames |-> <<>>, free_c_frame |-> <<>>, c_strs |-> <<>>,
     rkr_free_string |-> <<>>]

\* The outcome of an operation: the operation, the ConFrame slot it was
\* called on (0 if none), whether it returned or threw, the value returned,
\* what the engine answered to its snapshot request ("none": no request
\* was made, "null", or "data"), and the transient engine buffers the
\* operation obtained and released.
Threw(op, f) ==
    [op |-> op, f |-> f, st |-> "throw", val |-> <<>>, snap |-> "none",
     bufs |-> NoTransients]
Returned(op, f, v) ==
    [op |-> op, f |-> f, st |-> "ok", val |-> v, snap |-> "none",
     bufs |-> NoTransients]
Asked(r, c_frame) == [r EXCEPT !.snap = IF c_frame = <<>> THEN "null" ELSE "data"]

\* The k lowest members of a set of numbers, ascending.
RECURSIVE Lowest(_, _)
Lowest(S, k) ==
    IF k = 0 \/ S = {} THEN <<>>
    ELSE LET m == CHOOSE x \in S : \A y \in S : x <= y
         IN  <<m>> \o Lowest(S \ {m}, k - 1)

FreeSlots == {f \in FrameIds : ~frames[f].alive}
FreshHandles == {h \in Handles : hst[h] = "none"}

\* free_rkr_frame on each handle of a set.
ReleasedAll(rel, S) == [h \in Handles |-> IF h \in S THEN rel[h] + 1 ELSE rel[h]]
FreedAll(st, S) == [h \in Handles |-> IF h \in S THEN "freed" ELSE st[h]]

\* The mutant: the deleter releases nothing.
FrameDeleter_Leaks(h) == {}

\* FrameDeleter: the handles free_rkr_frame receives when a unique_ptr that
\* holds h lets go of it.
FrameDeleter(h) == IF h # NullHandle THEN {h} ELSE {}

\* ---------------------------------------------------------- cache_data
\* rkr_frame_to_c_frame: the snapshot record, or null.  A null handle gets
\* null; a live one its record, or null when the engine cannot produce it;
\* a released one is a dangling pointer, either outcome.
rkr_frame_to_c_frame(h) ==
    IF h = NullHandle THEN {<<>>}
    ELSE IF hst[h] = "none" THEN {<<>>}
    ELSE {<<>>, <<hdata[h]>>}

\* rkr_frame_get_header_line_cpp(handle, is_prebox, index).
rkr_frame_get_header_line_cpp(h, is_prebox, index) ==
    IF h = NullHandle \/ hst[h] = "none" THEN <<>>
    ELSE hdata[h].hdr[(IF is_prebox THEN 0 ELSE 2) + index + 1]

\* The mutant: the loop walks the snapshot's atoms backwards.
CopyAtoms_Backwards(cache, c_atoms) ==
    cache \o [i \in 1..Len(c_atoms) |-> c_atoms[Len(c_atoms) + 1 - i]]

\* The loop that copies the snapshot's atoms behind the cached ones.
CopyAtoms(cache, c_atoms) ==
    cache \o [i \in 1..Len(c_atoms) |->
        [atomic_number |-> c_atoms[i].atomic_number, x |-> c_atoms[i].x,
         y |-> c_atoms[i].y, z |-> c_atoms[i].z, atom_id |-> c_atoms[i].atom_id,
         mass |-> c_atoms[i].mass, is_fixed |-> c_atoms[i].is_fixed,
         vx |-> c_atoms[i].vx, vy |-> c_atoms[i].vy, vz |-> c_atoms[i].vz,
         has_velocity |-> c_atoms[i].has_velocity]]

\* The mutant: the buffer is released before it is copied, and the copy
\* is empty.
get_and_free_string_Dropped(c_str) == ""

\* The lambda of cache_data: a null buffer is the empty string, any other is
\* copied (and released).
get_and_free_string(c_str) ==
    IF c_str = <<>> THEN "" ELSE c_str[1]

\* The mutant: the early return on is_cached_ is missing.
NeedsFetch_Always(fr) == TRUE

\* cache_data returns at once when is_cached_ is set.
NeedsFetch(fr) == ~fr.is_cached_

\* The mutant: a null snapshot is taken for an empty frame.
cache_data_NullAsEmpty(fr, h, c_frame) ==
    IF c_frame = <<>>
    THEN [thrown |-> FALSE, fr |-> [fr EXCEPT !.is_cached_ = TRUE]]
    ELSE [thrown |-> FALSE,
          fr |-> [fr EXCEPT
            !.cell_cache_ = c_frame[1].cell,
            !.angles_cache_ = c_frame[1].angles,
            !.has_velocities_cache_ = c_frame[1].has_velocities,
            !.atoms_cache_ = CopyAtoms(fr.atoms_cache_, c_frame[1].atoms),
            !.prebox_header_cache_ =
                <<get_and_free_string(rkr_frame_get_header_line_cpp(h, TRUE, 0)),
                  get_and_free_string(rkr_frame_get_header_line_cpp(h, TRUE, 1))>>,
            !.postbox_header_cache_ =
                <<get_and_free_string(rkr_frame_get_header_line_cpp(h, FALSE, 0)),
                  get_and_free_string(rkr_frame_get_header_line_cpp(h, FALSE, 1))>>,
            !.is_cached_ = TRUE]]

\* cache_data past the is_cached_ test, given the snapshot the engine
\* answered: it throws on null and otherwise fills every cache field.
cache_data(fr, h, c_frame) ==
    IF c_frame = <<>>
    THEN [thrown |-> TRUE, fr |-> fr]
    ELSE [thrown |-> FALSE,
          fr |-> [fr EXCEPT
            !.cell_cache_ = c_frame[1].cell,
            !.angles_cache_ = c_frame[1].angles,
            !.has_velocities_cache_ = c_frame[1].has_velocities,
            !.atoms_cache_ = CopyAtoms(fr.atoms_cache_, c_frame[1].atoms),
            !.prebox_header_cache_ =
                <<get_and_free_string(rkr_frame_get_header_line_cpp(h, TRUE, 0)),
                  get_and_free_string(rkr_frame_get_header_line_cpp(h, TRUE, 1))>>,
            !.postbox_header_cache_ =
                <<get_and_free_string(rkr_frame_get_header_line_cpp(h, FALSE, 0)),
                  get_and_free_string(rkr_frame_get_header_line_cpp(h, FALSE, 1))>>,
            !.is_cached_ = TRUE]]

\* free_c_frame(c_frame) of cache_data: the snapshot records passed to the
\* release function.
free_c_frame(c_frame) == c_frame

\* The mutant: the lambda releases no buffer.
get_and_free_string_frees_Leaks(c_str) == <<>>

\* The lambda of cache_data: the buffers it passes to rkr_free_string.  It
\* returns before the release when the buffer is null.
get_and_free_string_frees(c_str) ==
    IF c_str = <<>> THEN <<>> ELSE <<c_str>>

\* The transient buffers of one cache_data, given the snapshot the engine
\* answered: nothing further is obtained when the snapshot is null; else
\* the snapshot is released after the copy and each of the four header
\* lines goes through the lambda.
Transients(h, c_frame) ==
    LET c_strs == <<rkr_frame_get_header_line_cpp(h, TRUE, 0),
                    rkr_frame_get_header_line_cpp(h, TRUE, 1),
                    rkr_frame_get_header_line_cpp(h, FALSE, 0),
                    rkr_frame_get_header_line_cpp(h, FALSE, 1)>>
    IN  IF c_frame = <<>> THEN NoTransients
        ELSE [c_frames |-> c_frame,
              free_c_frame |-> free_c_frame(c_frame),
              c_strs |-> c_strs,
              rkr_free_string |->
                  [i \in 1..4 |-> get_and_free_string_frees(c_strs[i])]]

Accessors == {"cell", "angles", "atoms", "prebox_header", "postbox_header",
              "has_velocities"}

\* The cache field an accessor returns a reference to.
CacheField(fr, w) ==
    CASE w = "cell" -> fr.cell_cache_
      [] w = "angles" -> fr.angles_cache_
      [] w = "atoms" -> fr.atoms_cache_
      [] w = "prebox_header" -> fr.prebox_header_cache_
      [] w = "postbox_header" -> fr.postbox_header_cache_
      [] w = "has_velocities" -> fr.has_velocities_cache_

\* cell(), angles(), atoms(), prebox_header(), postbox_header(),
\* has_velocities() on the ConFrame in slot f: cache_data(), then the field.
Accessor(f, w) ==
    /\ frames[f].alive
    /\ LET fr == frames[f]
           h == fr.frame_handle_
       IN  IF ~NeedsFetch(fr)
           THEN /\ ret' = Returned(w, f, CacheField(fr, w))
                /\ UNCHANGED <<frames, snapCalls, snapFails, hdrCalls>>
           ELSE /\ snapCalls[h] < MaxCalls
                /\ \E c_frame \in rkr_frame_to_c_frame(h) :
                     LET r == cache_data(fr, h, c_frame)
                     IN  /\ snapCalls' = [snapCalls EXCEPT ![h] = @ + 1]
                         /\ snapFails' = IF c_frame = <<>>
                                         THEN [snapFails EXCEPT ![h] = @ + 1]
                                         ELSE snapFails
                         /\ hdrCalls' = IF c_frame = <<>> THEN hdrCalls
                                        ELSE [hdrCalls EXCEPT ![h] =
                                                [i \in 1..4 |-> @[i] + 1]]
                         /\ frames' = [frames EXCEPT ![f] = r.fr]
                         /\ ret' = [Asked(IF r.thrown THEN Threw(w, f)
                                          ELSE Returned(w, f, CacheField(r.fr, w)),
                                          c_frame)
                                    EXCEPT !.bufs = Transients(h, c_frame)]
    /\ UNCHANGED <<file, hst, hdata, hrel>>
    /\ UNCHANGED <<builderVars, writerVars, iterVars>>

\* A ConFrameWriter slot with no object in it.
NoWriter == [alive |-> FALSE, writer_handle_ |-> NullHandle]

\* An Iterator slot with no object in it.
NoCursor == [alive |-> FALSE, iterator_ptr_ |-> NullHandle, current_frame_ |-> 0,
             exhausted |-> FALSE]

\* The ConFrame in slot f is the one a cursor's current_frame_ points to.
HeldByCursor(f) ==
    \E c \in CursorIds : cursors[c].alive /\ cursors[c].current_frame_ = f

\* ~ConFrame on slot f, a ConFrame the caller owns: the unique_ptr's deleter
\* releases a non-null handle.
DestroyFrame(f) ==
    /\ frames[f].alive /\ ~HeldByCursor(f)
    /\ frames' = [frames EXCEPT ![f] = NoFrame]
    /\ hrel' = ReleasedAll(hrel, FrameDeleter(frames[f].frame_handle_))
    /\ hst' = FreedAll(hst, FrameDeleter(frames[f].frame_handle_))
    /\ ret' = Returned("~ConFrame", f, <<>>)
    /\ UNCHANGED <<file, hdata, snapCalls, snapFails, hdrCalls>>
    /\ UNCHANGED <<builderVars, writerVars, iterVars>>

\* ------------------------------------------------------- ConFrame moves
\* The mutant: the moved-from ConFrame still holds the handle.
MovedFromFrame_KeepsHandle(fr, keepAtoms, keepStrings) == fr

\* What the defaulted move operations leave in the source: the unique_ptr is
\* null, a moved-from vector or string is valid but unspecified (emptied, or
\* left as it was when the object is assigned to itself), the arrays and
\* flags are copied.
MovedFromFrame(fr, keepAtoms, keepStrings) ==
    [fr EXCEPT !.frame_handle_ = NullHandle,
               !.atoms_cache_ = IF keepAtoms THEN @ ELSE <<>>,
               !.prebox_header_cache_ = IF keepStrings THEN @ ELSE <<"", "">>,
               !.postbox_header_cache_ = IF keepStrings THEN @ ELSE <<"", "">>]

\* ConFrame(ConFrame &&): a new object in a free slot takes every member of
\* src.  The moved-from vector of a move construction is empty.
MoveConstruct(src, dst) ==
    /\ frames[src].alive /\ FreeSlots # {} /\ dst = Lowest(FreeSlots, 1)[1]
    /\ \E keepStrings \in BOOLEAN :
         frames' = [frames EXCEPT
                      ![dst] = frames[src],
                      ![src] = MovedFromFrame(frames[src], FALSE, keepStrings)]
    /\ ret' = Returned("ConFrame(&&)", dst, <<src>>)
    /\ UNCHANGED <<file, hst, hdata, hrel, snapCalls, snapFails, hdrCalls>>
    /\ UNCHANGED <<builderVars, writerVars, iterVars>>

\* operator=(ConFrame &&): dst takes every member of src and the handle dst
\* held goes to the deleter.  Assigning an object to itself resets the
\* unique_ptr to the pointer it released, so the handle stays.
MoveAssign(src, dst) ==
    /\ frames[src].alive /\ frames[dst].alive
    /\ \E keepAtoms, keepStrings \in BOOLEAN :
         /\ src = dst \/ ~keepAtoms
         /\ frames' =
              IF src = dst
              THEN [frames EXCEPT ![dst] =
                      [MovedFromFrame(frames[src], keepAtoms, keepStrings)
                         EXCEPT !.frame_handle_ = frames[src].frame_handle_]]
              ELSE [frames EXCEPT
                      ![dst] = frames[src],
                      ![src] = MovedFromFrame(frames[src], keepAtoms, keepStrings)]
    /\ LET gone == IF src = dst THEN {}
                   ELSE FrameDeleter(frames[dst].frame_handle_)
       IN  /\ hrel' = ReleasedAll(hrel, gone)
           /\ hst' = FreedAll(hst, gone)
    /\ ret' = Returned("ConFrame=", dst, <<src>>)
    /\ UNCHANGED <<file, hdata, snapCalls, snapFails, hdrCalls>>
    /\ UNCHANGED <<builderVars, writerVars, iterVars>>

\* ------------------------------------------- read_first_frame / read_all
\* rkr_read_first_frame: a handle on the first frame, or null (the path
\* cannot be opened, or holds no frame).
rkr_read_first_frame ==
    {<<>>} \cup (IF Len(file) > 0 /\ FreshHandles # {}
                 THEN {<<Lowest(FreshHandles, 1)[1]>>} ELSE {})

read_first_frame ==
    /\ FreeSlots # {}
    /\ UNCHANGED <<builderVars, writerVars, iterVars>>
    /\ \E handle \in rkr_read_first_frame :
         IF handle = <<>>
         THEN /\ ret' = Threw("read_first_frame", 0)
              /\ UNCHANGED frameVars
         ELSE LET f == Lowest(FreeSlots, 1)[1]
              IN  /\ hst' = [hst EXCEPT ![handle[1]] = "live"]
                  /\ hdata' = [hdata EXCEPT ![handle[1]] = file[1]]
                  /\ frames' = [frames EXCEPT ![f] = NewConFrame(handle[1])]
                  /\ ret' = Returned("read_first_frame", f, <<f>>)
                  /\ UNCHANGED <<file, hrel, snapCalls, snapFails, hdrCalls>>

\* rkr_read_all_frames: an array of handles, one per frame in on-disk order
\* (with its count), or null.  Whether a file of no frames is an empty array
\* or null is the engine's choice.
rkr_read_all_frames ==
    {<<>>} \cup (IF Cardinality(FreshHandles) >= Len(file)
                 THEN {<<Lowest(FreshHandles, Len(file))>>} ELSE {})

\* The mutant: the handles are left in the array.
NulledOut_Kept(handles) == handles

\* The loop that nulls the array's entries before the array is released.
NulledOut(handles) == [i \in 1..Len(handles) |-> NullHandle]

\* free_rkr_frame_array: releases the array and every frame handle still in
\* it; the set of frame handles it releases.
free_rkr_frame_array(handles) ==
    {handles[i] : i \in 1..Len(handles)} \ {NullHandle}

read_all_frames ==
    /\ UNCHANGED <<builderVars, writerVars, iterobj, sess, cursors, yielded>>
    /\ \E handles \in rkr_read_all_frames :
         IF handles = <<>>
         THEN /\ ret' = Threw("read_all_frames", 0)
              /\ UNCHANGED <<frameVars, allread>>
         ELSE LET num_frames == Len(handles[1])
                  slots == Lowest(FreeSlots, num_frames)
                  live == {handles[1][i] : i \in 1..num_frames}
                  gone == free_rkr_frame_array(NulledOut(handles[1]))
              IN  /\ Cardinality(FreeSlots) >= num_frames
                  /\ hst' = FreedAll([h \in Handles |->
                                IF h \in live THEN "live" ELSE hst[h]], gone)
                  /\ hrel' = ReleasedAll(hrel, gone)
                  /\ hdata' = [h \in Handles |->
                        IF \E i \in 1..num_frames : handles[1][i] = h
                        THEN file[CHOOSE i \in 1..num_frames : handles[1][i] = h]
                        ELSE hdata[h]]
                  /\ frames' = [f \in FrameIds |->
                        IF \E i \in 1..num_frames : slots[i] = f
                        THEN NewConFrame(handles[1][CHOOSE i \in 1..num_frames :
                                                        slots[i] = f])
                        ELSE frames[f]]
                  /\ ret' = Returned("read_all_frames", 0, slots)
                  /\ allread' = [i \in 1..num_frames |->
                                    frames'[slots[i]].frame_handle_]
                  /\ UNCHANGED <<file, snapCalls, snapFails, hdrCalls>>

\* ---------------------------------------------------- ConFrameIterator
\* read_con_file_iterator: the session handle, or null.
read_con_file_iterator == {NullHandle, SessionHandle}

\* ConFrameIterator(path): opens the session, throws when the engine
\* answers null.
ConFrameIterator ==
    /\ ~iterobj.alive /\ sess.st = "none"
    /\ \E iter_ptr \in read_con_file_iterator :
         IF iter_ptr = NullHandle
         THEN /\ ret' = Threw("ConFrameIterator", 0)
              /\ UNCHANGED <<iterobj, sess>>
         ELSE /\ iterobj' = [alive |-> TRUE, iterator_ptr_ |-> iter_ptr]
              /\ sess' = [st |-> "open", pos |-> 0, rel |-> 0]
              /\ ret' = Returned("ConFrameIterator", 0,
                                 [c |-> 0, asked |-> <<>>, was |-> FALSE])
    /\ UNCHANGED <<frameVars, builderVars, writerVars, cursors, yielded, allread>>

\* IteratorDeleter: the sessions free_con_frame_iterator receives when the
\* unique_ptr that holds ptr lets go of it.
IteratorDeleter(ptr) == IF ptr # NullHandle THEN {ptr} ELSE {}

\* ~ConFrameIterator: iterator_ptr_ releases the session.  The cursors keep
\* the raw pointer they were given.
ConFrameIteratorDtor ==
    /\ iterobj.alive
    /\ iterobj' = [alive |-> FALSE, iterator_ptr_ |-> NullHandle]
    /\ sess' = IF IteratorDeleter(iterobj.iterator_ptr_) # {}
               THEN [sess EXCEPT !.st = "freed", !.rel = @ + 1] ELSE sess
    /\ ret' = Returned("~ConFrameIterator", 0, <<>>)
    /\ UNCHANGED <<frameVars, builderVars, writerVars, cursors, yielded, allread>>

\* con_frame_iterator_next: a handle on the next frame of the session, or
\* null at the end of the file (spec.md 6: null = end).  A null session
\* handle gets null.  A released session is a dangling pointer: null, or
\* whatever frame the stale session decodes next.
con_frame_iterator_next(iterator_ptr) ==
    LET more == IF sess.pos < Len(file) /\ FreshHandles # {}
                THEN {Lowest(FreshHandles, 1)[1]} ELSE {}
    IN  IF iterator_ptr = NullHandle THEN {NullHandle}
        ELSE IF sess.st = "freed" THEN {NullHandle} \cup more
        ELSE IF sess.pos >= Len(file) THEN {NullHandle}
        ELSE more

\* The mutant: a null answer leaves the held frame in place.
fetch_next_frame_KeepsOnNull(cur, frame_handle, slot) ==
    IF frame_handle # NullHandle
    THEN [cur EXCEPT !.current_frame_ = slot]
    ELSE [cur EXCEPT !.exhausted = TRUE]

\* fetch_next_frame, on the cursor: a frame handle is wrapped in a new
\* ConFrame (in slot) that current_frame_ then points to; a null answer
\* resets current_frame_.
fetch_next_frame(cur, frame_handle, slot) ==
    IF frame_handle # NullHandle
    THEN [cur EXCEPT !.current_frame_ = slot]
    ELSE [cur EXCEPT !.current_frame_ = 0, !.exhausted = TRUE]

\* fetch_next_frame, on the whole state: one engine call; assigning to
\* current_frame_ destroys the ConFrame it pointed to, which releases that
\* ConFrame's handle.  seen is what the cursor has held before.
Fetch(op, c, cur, seen) ==
    \E frame_handle \in con_frame_iterator_next(cur.iterator_ptr_) :
      LET old == cur.current_frame_
          slot == IF old # 0 THEN old ELSE Lowest(FreeSlots, 1)[1]
          new == fetch_next_frame(cur, frame_handle, slot)
          dropped == old # 0 /\ (frame_handle # NullHandle \/ new.current_frame_ # old)
          gone == IF dropped THEN FrameDeleter(frames[old].frame_handle_) ELSE {}
      IN  /\ (frame_handle # NullHandle /\ old = 0) => FreeSlots # {}
          /\ cursors' = [cursors EXCEPT ![c] = new]
          /\ frames' = IF frame_handle # NullHandle
                       THEN [frames EXCEPT ![slot] = NewConFrame(frame_handle)]
                       ELSE IF dropped THEN [frames EXCEPT ![old] = NoFrame]
                       ELSE frames
          /\ hst' = [h \in Handles |-> IF h = frame_handle THEN "live"
                                       ELSE FreedAll(hst, gone)[h]]
          /\ hdata' = IF frame_handle # NullHandle
                      THEN [hdata EXCEPT ![frame_handle] = file[sess.pos + 1]]
                      ELSE hdata
          /\ hrel' = ReleasedAll(hrel, gone)
          /\ sess' = IF frame_handle # NullHandle
                     THEN [sess EXCEPT !.pos = @ + 1] ELSE sess
          /\ yielded' = [yielded EXCEPT ![c] =
                           IF frame_handle # NullHandle
                           THEN Append(seen, frame_handle) ELSE seen]
          /\ ret' = Returned(op, new.current_frame_,
                             [c |-> c, asked |-> <<cur.iterator_ptr_>>,
                              was |-> cur.exhausted])

\* The mutant: the constructor never fetches.
IteratorFetches_Never(iterator_ptr) == FALSE

\* `if (iterator_ptr_)` of the Iterator constructor.
IteratorFetches(iterator_ptr) == iterator_ptr # NullHandle

\* Iterator(iterator_ptr): a new cursor in slot c, which fetches at once
\* when it is given a session.
Iterator(op, c, iterator_ptr) ==
    LET cur == [alive |-> TRUE, iterator_ptr_ |-> iterator_ptr,
                current_frame_ |-> 0, exhausted |-> FALSE]
    IN  /\ ~cursors[c].alive
        /\ \A d \in CursorIds : d < c => cursors[d].alive
        /\ IF IteratorFetches(iterator_ptr)
           THEN Fetch(op, c, cur, <<>>)
           ELSE /\ cursors' = [cursors EXCEPT ![c] = cur]
                /\ yielded' = [yielded EXCEPT ![c] = <<>>]
                /\ ret' = Returned(op, 0, [c |-> c, asked |-> <<>>,
                                           was |-> FALSE])
                /\ UNCHANGED <<frames, hst, hdata, hrel, sess>>
        /\ UNCHANGED <<file, snapCalls, snapFails, hdrCalls, iterobj, allread>>
        /\ UNCHANGED <<builderVars, writerVars>>

\* The mutant: begin() hands the cursor no session.
begin_Null(c) == iterobj.alive /\ Iterator("begin", c, NullHandle)

begin(c) == iterobj.alive /\ Iterator("begin", c, iterobj.iterator_ptr_)

end(c) == iterobj.alive /\ Iterator("end", c, NullHandle)

\* What end() returns.
EndIterator == [alive |-> TRUE, iterator_ptr_ |-> NullHandle,
                current_frame_ |-> 0, exhausted |-> FALSE]

\* operator!=: the two current_frame_ pointers differ.
operator_ne(a, b) == a.current_frame_ # b.current_frame_

\* A call of operator!= on two cursors.
Compare(c, d) ==
    /\ cursors[c].alive /\ cursors[d].alive
    /\ ret' = Returned("!=", 0, <<c, d, operator_ne(cursors[c], cursors[d])>>)
    /\ UNCHANGED <<frameVars, builderVars, writerVars, iterVars>>

\* The mutant: operator++ returns the cursor without fetching.
operator_increment_Stays(c) ==
    /\ cursors[c].alive
    /\ ret' = Returned("++", cursors[c].current_frame_,
                       [c |-> c, asked |-> <<>>, was |-> cursors[c].exhausted])
    /\ UNCHANGED <<frameVars, builderVars, writerVars, iterVars>>

\* operator++: fetch_next_frame, whatever the cursor holds.
operator_increment(c) ==
    /\ cursors[c].alive
    /\ Fetch("++", c, cursors[c], yielded[c])
    /\ UNCHANGED <<file, snapCalls, snapFails, hdrCalls, iterobj, allread>>
    /\ UNCHANGED <<builderVars, writerVars>>

\* Iterator(Iterator &&), implicit: the new cursor in slot dst takes the
\* ConFrame src pointed to; the raw session pointer is copied, so src keeps
\* it.
IteratorMoveCtor(src, dst) ==
    /\ cursors[src].alive /\ ~cursors[dst].alive
    /\ \A d \in CursorIds : d < dst => cursors[d].alive
    /\ cursors' = [cursors EXCEPT ![dst] = cursors[src],
                                  ![src] = [cursors[src] EXCEPT !.current_frame_ = 0]]
    /\ yielded' = [yielded EXCEPT ![dst] = yielded[src]]
    /\ ret' = Returned("Iterator(&&)", cursors[src].current_frame_,
                       [c |-> dst, asked |-> <<>>, was |-> cursors[src].exhausted])
    /\ UNCHANGED <<frameVars, builderVars, writerVars, iterobj, sess, allread>>

\* ~Iterator: current_frame_ destroys the ConFrame it points to.
IteratorDtor(c) ==
    /\ cursors[c].alive
    /\ LET old == cursors[c].current_frame_
           gone == IF old # 0 THEN FrameDeleter(frames[old].frame_handle_) ELSE {}
       IN  /\ frames' = IF old # 0 THEN [frames EXCEPT ![old] = NoFrame] ELSE frames
           /\ hrel' = ReleasedAll(hrel, gone)
           /\ hst' = FreedAll(hst, gone)
    /\ cursors' = [cursors EXCEPT ![c] = NoCursor]
    /\ yielded' = [yielded EXCEPT ![c] = <<>>]
    /\ ret' = Returned("~Iterator", 0, <<c>>)
    /\ UNCHANGED <<file, hdata, snapCalls, snapFails, hdrCalls>>
    /\ UNCHANGED <<builderVars, writerVars, iterobj, sess, allread>>

\* ------------------------------------------------------- ConFrameWriter
FreshWriters == {h \in WriterIds : wsess[h].st = "none"}

\* create_writer_from_path_c / create_writer_from_path_with_precision_c: a
\* writer session handle, or null.
create_writer_from_path_c ==
    {NullHandle} \cup (IF FreshWriters = {} THEN {}
                       ELSE {Lowest(FreshWriters, 1)[1]})

\* ConFrameWriter(path, precision): opens the session, throws when the
\* engine answers null.
ConFrameWriter(w) ==
    /\ ~writers[w].alive
    /\ \A v \in WriterIds : v < w => writers[v].alive
    /\ \E handle \in create_writer_from_path_c :
         IF handle = NullHandle
         THEN /\ ret' = Threw("ConFrameWriter", 0)
              /\ UNCHANGED writerVars
         ELSE /\ writers' = [writers EXCEPT ![w] =
                               [alive |-> TRUE, writer_handle_ |-> handle]]
              /\ wsess' = [wsess EXCEPT ![handle].st = "open"]
              /\ ret' = Returned("ConFrameWriter", 0, <<w>>)
    /\ UNCHANGED <<frameVars, builderVars, iterVars>>

\* WriterDeleter: the sessions free_rkr_writer receives when the unique_ptr
\* that holds ptr lets go of it.
WriterDeleter(ptr) == IF ptr # NullHandle THEN {ptr} ELSE {}

\* ~ConFrameWriter: writer_handle_ releases the session.
ConFrameWriterDtor(w) ==
    /\ writers[w].alive
    /\ writers' = [writers EXCEPT ![w] = NoWriter]
    /\ wsess' = [h \in WriterIds |->
                   IF h \in WriterDeleter(writers[w].writer_handle_)
                   THEN [wsess[h] EXCEPT !.st = "freed", !.rel = @ + 1]
                   ELSE wsess[h]]
    /\ ret' = Returned("~ConFrameWriter", 0, <<w>>)
    /\ UNCHANGED <<frameVars, builderVars, iterVars>>

\* The vectors of ConFrames a caller can pass: some of the ConFrames it
\* owns, in the order of their slots.
Batches ==
    LET own == {f \in FrameIds : frames[f].alive /\ ~HeldByCursor(f)}
    IN  {Lowest(S, Cardinality(S)) : S \in SUBSET own}

\* The loop of extend: get_handle() of every frame of the batch, in order.
BatchHandles(batch) ==
    [i \in 1..Len(batch) |-> frames[batch[i]].frame_handle_]

\* The handles before the first null one.
RECURSIVE LivePrefix(_)
LivePrefix(handles) ==
    IF handles = <<>> \/ Head(handles) = NullHandle THEN <<>>
    ELSE <<Head(handles)>> \o LivePrefix(Tail(handles))

\* rkr_writer_extend: the code it returns (0: success) and the frames it
\* appended to the file.  All frames on success; on failure (a null writer,
\* a null frame handle, or the output failing) some of the leading frames
\* may have been written (spec.md 4.5).
rkr_writer_extend(writer, handles) ==
    IF writer = NullHandle \/ wsess[writer].st # "open"
    THEN {[code |-> -1, written |-> <<>>]}
    ELSE {[code |-> -1, written |-> SubSeq(handles, 1, k)] :
             k \in 0..Len(LivePrefix(handles))}
         \cup (IF LivePrefix(handles) = handles
               THEN {[code |-> 0, written |-> handles]} ELSE {})

\* The frames written so far, to all files.
RECURSIVE WrittenTo(_)
WrittenTo(S) ==
    IF S = {} THEN 0
    ELSE LET h == CHOOSE x \in S : TRUE
         IN  Len(wsess[h].out) + WrittenTo(S \ {h})

Written == WrittenTo(WriterIds)

\* The mutant: an empty batch goes to the engine like any other.
SkipsEngine_Never(batch) == FALSE

\* `if (frames.empty()) return;`
SkipsEngine(batch) == batch = <<>>

\* The mutant: extend takes the handle out of the ConFrame.
Borrowed_Taken(fr) == [fr EXCEPT !.frame_handle_ = NullHandle]

\* A ConFrame of the batch after extend: get_handle() is const and the
\* vector is passed by const reference.
Borrowed(fr) == fr

\* extend(frames): one engine call for a batch that is not empty; throws
\* when the engine returns a code other than 0.
extend(w, batch) ==
    /\ writers[w].alive /\ batch \in Batches
    /\ IF SkipsEngine(batch)
       THEN /\ ret' = Returned("extend", 0,
                         [w |-> w, batch |-> batch, asked |-> <<>>,
                          handles |-> <<>>])
            /\ UNCHANGED writerVars
       ELSE LET handle == writers[w].writer_handle_
                handles == BatchHandles(batch)
                info == [w |-> w, batch |-> batch, asked |-> <<handle>>,
                         handles |-> handles]
            IN  \E r \in rkr_writer_extend(handle, handles) :
                  /\ Written + Len(r.written) <= MaxWritten
                  /\ wsess' = IF handle # NullHandle
                              THEN [wsess EXCEPT ![handle].out = @ \o r.written]
                              ELSE wsess
                  /\ ret' = IF r.code # 0
                            THEN [Threw("extend", 0) EXCEPT !.val = info]
                            ELSE Returned("extend", 0, info)
                  /\ UNCHANGED writers
    /\ frames' = [f \in FrameIds |->
                    IF \E i \in 1..Len(batch) : batch[i] = f
                    THEN Borrowed(frames[f]) ELSE frames[f]]
    /\ UNCHANGED <<file, hst, hdata, hrel, snapCalls, snapFails, hdrCalls>>
    /\ UNCHANGED <<builderVars, iterVars>>

\* ----------------------------------------------------- ConFrameBuilder
\* A slot that holds no builder.  built records that build() was called on
\* the builder the object stands for.
NoBuilder == [alive |-> FALSE, builder_handle_ |-> NullHandle, built |-> FALSE]

\* The constructor's arguments: cell, angles, prebox and postbox headers.
BuilderArgs ==
    [cell |-> <<10, 10, 10>>, angles |-> <<90, 90, 90>>,
     prebox |-> <<"", "generated">>, postbox |-> <<"X", "">>]

\* Species symbols a caller passes; the engine knows the first three.
Symbols == {"O", "H", "Cu", "Xx"}
KnownSymbols == {"O", "H", "Cu"}
AtomicNumber(symbol) ==
    CASE symbol = "H" -> 1 [] symbol = "O" -> 8 [] symbol = "Cu" -> 29
MassOf(symbol) ==
    CASE symbol = "H" -> 1 [] symbol = "O" -> 16 [] symbol = "Cu" -> 64
      [] OTHER -> 0

\* The arguments of an add call: the n-th atom, of a species, with velocity
\* (add_atom_with_velocity) or without (add_atom).  Atom ids are distinct.
AddArgs(symbol, n, withVelocity) ==
    [symbol |-> symbol, x |-> 10 * n + 1, y |-> 10 * n + 2, z |-> 10 * n + 3,
     is_fixed |-> (n % 2 = 0), atom_id |-> n, mass |-> MassOf(symbol),
     vel |-> IF withVelocity THEN <<1, 2, 3>> ELSE <<>>]

\* rkr_frame_new: a fresh builder handle out of pool, or null when the
\* engine rejects the arguments.
rkr_frame_new(pool) ==
    {NullHandle} \cup
    (IF \E h \in pool : ebst[h] = "none"
     THEN {Lowest({h \in pool : ebst[h] = "none"}, 1)[1]} ELSE {})

\* rkr_frame_add_atom / rkr_frame_add_atom_with_velocity: the status code
\* and the atoms the builder holds afterwards.  A null handle and an unknown
\* symbol are failures; a handle already consumed or released is a dangling
\* pointer, and either outcome.
rkr_frame_add_atom(h, a) ==
    IF h = NullHandle \/ ebst[h] = "none"
    THEN {[code |-> -1, atoms |-> <<>>]}
    ELSE IF ebst[h] = "live"
    THEN IF a.symbol \in KnownSymbols
         THEN {[code |-> 0, atoms |-> Append(ebatoms[h], a)]}
         ELSE {[code |-> -1, atoms |-> ebatoms[h]]}
    ELSE {[code |-> -1, atoms |-> ebatoms[h]],
          [code |-> 0, atoms |-> Append(ebatoms[h], a)]}

\* The distinct symbols of a sequence of atoms, in first-occurrence order.
RECURSIVE FirstSeen(_)
FirstSeen(atoms) ==
    IF atoms = <<>> THEN <<>>
    ELSE LET before == FirstSeen(SubSeq(atoms, 1, Len(atoms) - 1))
             symbol == atoms[Len(atoms)].symbol
         IN  IF \E i \in 1..Len(before) : before[i] = symbol
             THEN before ELSE Append(before, symbol)

\* The atoms of one symbol, in insertion order.
GroupOf(atoms, symbol) == SelectSeq(atoms, LAMBDA a : a.symbol = symbol)

\* The atoms species group by species group, the groups in first-occurrence
\* order (spec.md 4.2).
RECURSIVE GroupsOf(_, _)
GroupsOf(atoms, symbols) ==
    IF symbols = <<>> THEN <<>>
    ELSE GroupOf(atoms, symbols[1]) \o GroupsOf(atoms, Tail(symbols))
Grouped(atoms) == GroupsOf(atoms, FirstSeen(atoms))

\* The snapshot atom of an accumulated atom; its mass is its group's, the
\* mass given at the symbol's first occurrence.
ToCAtom(atoms, a) ==
    [atomic_number |-> AtomicNumber(a.symbol), x |-> a.x, y |-> a.y, z |-> a.z,
     atom_id |-> a.atom_id, mass |-> GroupOf(atoms, a.symbol)[1].mass,
     is_fixed |-> a.is_fixed,
     vx |-> IF a.vel = <<>> THEN 0 ELSE a.vel[1],
     vy |-> IF a.vel = <<>> THEN 0 ELSE a.vel[2],
     vz |-> IF a.vel = <<>> THEN 0 ELSE a.vel[3],
     has_velocity |-> a.vel # <<>>]

\* Some atom was added with velocity data and some without.
Mixed(atoms) ==
    \E i, j \in 1..Len(atoms) : atoms[i].vel = <<>> /\ atoms[j].vel # <<>>

\* The frame the engine assembles from a builder's atoms.
BuiltFrame(atoms) ==
    [cell |-> BuilderArgs.cell, angles |-> BuilderArgs.angles,
     has_velocities |-> atoms[1].vel # <<>>,
     atoms |-> [i \in 1..Len(atoms) |-> ToCAtom(atoms, Grouped(atoms)[i])],
     hdr |-> <<<<BuilderArgs.prebox[1]>>, <<BuilderArgs.prebox[2]>>,
               <<BuilderArgs.postbox[1]>>, <<BuilderArgs.postbox[2]>>>>]

\* rkr_frame_builder_build: consumes the builder handle; the assembled frame,
\* or null for a null handle, no atoms, mixed velocities or a failed
\* assembly.  A handle already consumed or released is a dangling pointer:
\* null, or a frame of the stale atoms.
rkr_frame_builder_build(h) ==
    IF h = NullHandle \/ ebst[h] = "none" THEN {<<>>}
    ELSE IF ebst[h] = "live"
    THEN IF ebatoms[h] = <<>> \/ Mixed(ebatoms[h]) THEN {<<>>}
         ELSE {<<>>, <<BuiltFrame(ebatoms[h])>>}
    ELSE {<<>>} \cup (IF ebatoms[h] = <<>> THEN {}
                      ELSE {<<BuiltFrame(ebatoms[h])>>})

\* The builder handles an engine call takes out of the caller's hands.
Taken(h) == IF h # NullHandle THEN {h} ELSE {}

\* What a builder operation reports besides its outcome: the builder, and
\* whether build() had been called on it before.
BuilderInfo(b) ==
    [b |-> b, built |-> builders[b].built,
     asked |-> <<builders[b].builder_handle_>>]

\* ConFrameBuilder(cell, angles, prebox, postbox) into slot b.
ConFrameBuilder(b, pool) ==
    /\ ~builders[b].alive
    /\ \E h \in rkr_frame_new(pool) :
         IF h = NullHandle
         THEN /\ ret' = Threw("ConFrameBuilder", 0)
              /\ UNCHANGED builderVars
         ELSE /\ builders' = [builders EXCEPT ![b] =
                    [alive |-> TRUE, builder_handle_ |-> h, built |-> FALSE]]
              /\ ebst' = [ebst EXCEPT ![h] = "live"]
              /\ ret' = Returned("ConFrameBuilder", 0, <<>>)
              /\ UNCHANGED <<ebatoms, ebcons, ebrel, builtFrom>>
    /\ UNCHANGED <<frameVars, iterVars, writerVars>>

\* free_rkr_frame_builder on each handle of a set.
BuildersReleased(S) ==
    /\ ebrel' = [h \in BuilderHandles |-> IF h \in S THEN ebrel[h] + 1 ELSE ebrel[h]]
    /\ ebst' = [h \in BuilderHandles |-> IF h \in S THEN "released" ELSE ebst[h]]

\* ~ConFrameBuilder on slot b.
BuilderDtor(b) ==
    /\ builders[b].alive
    /\ BuildersReleased(Taken(builders[b].builder_handle_))
    /\ builders' = [builders EXCEPT ![b] = NoBuilder]
    /\ ret' = Returned("~ConFrameBuilder", 0, <<>>)
    /\ UNCHANGED <<ebatoms, ebcons, builtFrom>>
    /\ UNCHANGED <<frameVars, iterVars, writerVars>>

\* The mutant: the source of a move keeps its handle.
MovedFromBuilder_Keeps(bo) == bo

\* The source of a builder move: other.builder_handle_ = nullptr.
MovedFromBuilder(bo) == [bo EXCEPT !.builder_handle_ = NullHandle]

\* ConFrameBuilder(ConFrameBuilder &&other): slot dst is built from src.
BuilderMoveCtor(src, dst) ==
    /\ builders[src].alive /\ ~builders[dst].alive
    /\ builders' = [builders EXCEPT ![dst] = builders[src],
                                    ![src] = MovedFromBuilder(builders[src])]
    /\ ret' = Returned("ConFrameBuilder(&&)", 0, <<>>)
    /\ UNCHANGED <<ebst, ebatoms, ebcons, ebrel, builtFrom>>
    /\ UNCHANGED <<frameVars, iterVars, writerVars>>

\* operator=(ConFrameBuilder &&other): dst = std::move(src).
BuilderMoveAssign(src, dst) ==
    /\ builders[src].alive /\ builders[dst].alive
    /\ IF src # dst
       THEN /\ BuildersReleased(Taken(builders[dst].builder_handle_))
            /\ builders' = [builders EXCEPT ![dst] = builders[src],
                                            ![src] = MovedFromBuilder(builders[src])]
       ELSE UNCHANGED <<builders, ebrel, ebst>>
    /\ ret' = Returned("ConFrameBuilder=", 0, <<>>)
    /\ UNCHANGED <<ebatoms, ebcons, builtFrom>>
    /\ UNCHANGED <<frameVars, iterVars, writerVars>>

\* The body shared by add_atom and add_atom_with_velocity: the engine call,
\* and a throw on a nonzero status.
AddCall(op, b, symbol, withVelocity, limit) ==
    /\ builders[b].alive
    /\ LET h == builders[b].builder_handle_
           n == IF h = NullHandle THEN 0 ELSE Len(ebatoms[h])
       IN  /\ n < limit
           /\ \E r \in rkr_frame_add_atom(h, AddArgs(symbol, n, withVelocity)) :
                /\ ebatoms' = IF h = NullHandle THEN ebatoms
                              ELSE [ebatoms EXCEPT ![h] = r.atoms]
                /\ ret' = IF r.code # 0
                          THEN [Threw(op, 0) EXCEPT !.val = BuilderInfo(b)]
                          ELSE Returned(op, 0, BuilderInfo(b))
    /\ UNCHANGED <<builders, ebst, ebcons, ebrel, builtFrom>>
    /\ UNCHANGED <<frameVars, iterVars, writerVars>>

add_atom(b, symbol, limit) == AddCall("add_atom", b, symbol, FALSE, limit)

add_atom_with_velocity(b, symbol, limit) ==
    AddCall("add_atom_with_velocity", b, symbol, TRUE, limit)

\* The mutant: build() leaves builder_handle_ as it was.
AfterBuild_KeepsHandle(bo) == [bo EXCEPT !.built = TRUE]

\* The builder after build(): builder_handle_ = nullptr, whatever the engine
\* returned.
AfterBuild(bo) == [bo EXCEPT !.builder_handle_ = NullHandle, !.built = TRUE]

\* The mutant: build() does not test the frame it got.
BuildFailed_Never(frame) == FALSE

\* build() throws when the engine returned no frame.
BuildFailed(frame) == frame = <<>>

\* build() on slot b.
build(b) ==
    /\ builders[b].alive
    /\ LET h == builders[b].builder_handle_
       IN  \E frame \in rkr_frame_builder_build(h) :
             /\ ebcons' = [g \in BuilderHandles |->
                              IF g \in Taken(h) THEN ebcons[g] + 1 ELSE ebcons[g]]
             /\ ebst' = [g \in BuilderHandles |->
                              IF g \in Taken(h) THEN "consumed" ELSE ebst[g]]
             /\ builders' = [builders EXCEPT ![b] = AfterBuild(builders[b])]
             /\ IF frame # <<>>
                THEN /\ FreshHandles # {}
                     /\ LET nh == Lowest(FreshHandles, 1)[1]
                        IN  /\ hst' = [hst EXCEPT ![nh] = "live"]
                            /\ hdata' = [hdata EXCEPT ![nh] = frame[1]]
                            /\ builtFrom' = [builtFrom EXCEPT ![nh] = h]
                ELSE UNCHANGED <<hst, hdata, builtFrom>>
             /\ IF BuildFailed(frame)
                THEN /\ ret' = [Threw("build", 0) EXCEPT !.val = BuilderInfo(b)]
                     /\ UNCHANGED frames
                ELSE /\ FreeSlots # {}
                     /\ LET f == Lowest(FreeSlots, 1)[1]
                            fh == IF frame = <<>> THEN NullHandle
                                  ELSE Lowest(FreshHandles, 1)[1]
                        IN  /\ frames' = [frames EXCEPT ![f] = NewConFrame(fh)]
                            /\ ret' = Returned("build", f, BuilderInfo(b))
    /\ UNCHANGED <<file, hrel, snapCalls, snapFails, hdrCalls, ebatoms, ebrel>>
    /\ UNCHANGED <<iterVars, writerVars>>

\* ------------------------------------------------------------ specifications
InitEngine ==
    /\ hst = [h \in Handles |-> "none"]
    /\ hdata = [h \in Handles |-> NoData]
    /\ hrel = [h \in Handles |-> 0]
    /\ snapCalls = [h \in 0..MaxHandles |-> 0]
    /\ snapFails = [h \in 0..MaxHandles |-> 0]
    /\ hdrCalls = [h \in 0..MaxHandles |-> <<0, 0, 0, 0>>]
    /\ frames = [f \in FrameIds |-> NoFrame]
    /\ ret = Returned("init", 0, <<>>)
    /\ builders = [b \in BuilderIds |-> NoBuilder]
    /\ ebst = [h \in BuilderHandles |-> "none"]
    /\ ebatoms = [h \in BuilderHandles |-> <<>>]
    /\ ebcons = [h \in BuilderHandles |-> 0]
    /\ ebrel = [h \in BuilderHandles |-> 0]
    /\ builtFrom = [h \in Handles |-> 0]
    /\ iterobj = [alive |-> FALSE, iterator_ptr_ |-> NullHandle]
    /\ sess = [st |-> "none", pos |-> 0, rel |-> 0]
    /\ cursors = [c \in CursorIds |-> NoCursor]
    /\ yielded = [c \in CursorIds |-> <<>>]
    /\ allread = <<NullHandle>>
    /\ writers = [w \in WriterIds |-> NoWriter]
    /\ wsess = [h \in WriterIds |-> [st |-> "none", rel |-> 0, out |-> <<>>]]

\* Reading frames and calling their accessors, over the lifetime of the
\* frames read.
InitAccess == file \in FilesOver(DiskFrames) /\ InitEngine

NextAccess ==
    \/ read_first_frame
    \/ read_all_frames
    \/ \E f \in FrameIds, w \in Accessors : Accessor(f, w)

SpecAccess == InitAccess /\ [][NextAccess]_vars

\* One frame on disk, with every combination of header lines.
InitHeader == file \in [1..1 -> HeaderFrames] /\ InitEngine

NextHeader ==
    \/ read_first_frame
    \/ \E f \in FrameIds, w \in Accessors : Accessor(f, w)

SpecHeader == InitHeader /\ [][NextHeader]_vars

\* Builders: construction, moves, adds, build and destruction.
InitBuilder == file = <<>> /\ InitEngine

NextBuilder ==
    \/ \E b \in BuilderIds : ConFrameBuilder(b, BuilderHandles)
    \/ \E b \in BuilderIds : BuilderDtor(b)
    \/ \E src, dst \in BuilderIds : BuilderMoveCtor(src, dst)
    \/ \E src, dst \in BuilderIds : BuilderMoveAssign(src, dst)
    \/ \E b \in BuilderIds, symbol \in {"H", "Xx"} : add_atom(b, symbol, 1)
    \/ \E b \in BuilderIds, symbol \in {"H", "Xx"} :
          add_atom_with_velocity(b, symbol, 1)
    \/ \E b \in BuilderIds : build(b)

SpecBuilder == InitBuilder /\ [][NextBuilder]_vars

\* One builder: the atoms it is given, the frame it builds, and what the
\* frame's accessors return.
NextGroup ==
    \/ ConFrameBuilder(1, {1})
    \/ \E symbol \in Symbols : add_atom(1, symbol, MaxAtoms)
    \/ \E symbol \in Symbols : add_atom_with_velocity(1, symbol, MaxAtoms)
    \/ build(1)
    \/ \E f \in FrameIds, w \in Accessors : Accessor(f, w)

SpecGroup == InitBuilder /\ [][NextGroup]_vars

\* Iterating a file with cursors, next to reading it whole.  The frames on
\* disk alternate, so that neighbours differ.
OnDisk(n) == [i \in 1..n |-> IF i % 2 = 1 THEN DiskA ELSE DiskB]

InitIter == (\E n \in 0..MaxFile : file = OnDisk(n)) /\ InitEngine

NextIter ==
    \/ ConFrameIterator
    \/ \E c \in CursorIds : begin(c)
    \/ \E c \in CursorIds : end(c)
    \/ \E c \in CursorIds : operator_increment(c)
    \/ \E c, d \in CursorIds : c # d /\ Compare(c, d)
    \/ \E c \in CursorIds : IteratorDtor(c)
    \/ read_all_frames
    \/ \E f \in FrameIds : DestroyFrame(f)

SpecIter == InitIter /\ [][NextIter]_vars

\* Every way a ConFrame comes to hold a handle and lets go of it: the reads,
\* a cursor, build(), the moves and the destructors, on a file of two frames.
InitOwn == file = OnDisk(2) /\ InitEngine

\* The frame handles one behaviour may obtain: as many as there are ConFrame
\* slots.
OwnHandles == MaxFrames

Obtainable(k) == Cardinality(Handles \ FreshHandles) + k <= OwnHandles

NextOwn ==
    \/ Obtainable(1) /\ read_first_frame
    \/ Obtainable(Len(file)) /\ read_all_frames
    \/ ConFrameIterator
    \/ Obtainable(1) /\ begin(1)
    \/ (sess.pos < Len(file) => Obtainable(1)) /\ operator_increment(1)
    \/ IteratorDtor(1)
    \/ ConFrameBuilder(1, {1})
    \/ add_atom(1, "H", 1)
    \/ Obtainable(1) /\ build(1)
    \/ \E src, dst \in FrameIds : MoveConstruct(src, dst)
    \/ \E src, dst \in FrameIds : MoveAssign(src, dst)
    \/ \E f \in FrameIds : DestroyFrame(f)

SpecOwn == InitOwn /\ [][NextOwn]_vars

\* Writers and the batches of ConFrames they are given, the ConFrames read
\* from a file of one frame and materialized, or not, right after the read;
\* a moved-from ConFrame is one whose handle is null.
NextWriter ==
    \/ read_first_frame
    \/ \E src, dst \in FrameIds : MoveConstruct(src, dst)
    \/ ret.op = "read_first_frame" /\ ret.st = "ok" /\ Accessor(ret.f, "cell")
    \/ \E w \in WriterIds : ConFrameWriter(w)
    \/ \E w \in WriterIds : \E batch \in Batches : extend(w, batch)

InitWriter == file = <<DiskA>> /\ InitEngine

SpecWriter == InitWriter /\ [][NextWriter]_vars

\* -------------------------------------------------------------- sessions
\* The reading session and the writing sessions over their owners' whole
\* lives: the ConFrameIterator, the cursors of its begin(), their moves and
\* destructions in any order, and a ConFrameWriter that is written to and
\* destroyed.
NextSession ==
    \/ ConFrameIterator
    \/ \E c \in CursorIds : begin(c)
    \/ \E c \in CursorIds : operator_increment(c)
    \/ \E src, dst \in CursorIds : IteratorMoveCtor(src, dst)
    \/ \E c \in CursorIds : IteratorDtor(c)
    \/ ConFrameIteratorDtor
    \/ read_first_frame
    \/ \E w \in WriterIds : ConFrameWriter(w)
    \/ \E w \in WriterIds : \E batch \in Batches : extend(w, batch)
    \/ \E w \in WriterIds : ConFrameWriterDtor(w)

SpecSession == InitOwn /\ [][NextSession]_vars

\* read_all_frames on any file, and the ConFrames it returned used and
\* destroyed one by one in any order.
NextReadAll ==
    \/ Obtainable(Len(file)) /\ read_all_frames
    \/ \E f \in FrameIds : Accessor(f, "cell")
    \/ \E f \in FrameIds : DestroyFrame(f)

SpecReadAll == InitIter /\ [][NextReadAll]_vars

\* ConFrames that are read, materialized or not, moved into one another (a
\* ConFrame is not assigned to itself) and destroyed, with accessor calls on
\* the source and on the target of a move.
NextMove ==
    \/ Obtainable(1) /\ read_first_frame
    \/ \E f \in FrameIds, w \in {"cell", "atoms", "prebox_header"} : Accessor(f, w)
    \/ \E src, dst \in FrameIds : MoveConstruct(src, dst)
    \/ \E src, dst \in FrameIds : src # dst /\ MoveAssign(src, dst)
    \/ \E f \in FrameIds : DestroyFrame(f)

SpecMove == InitWriter /\ [][NextMove]_vars

\* Every operation that passes a handle to the engine, on objects in every
\* condition the public interface can bring them into: a builder before and
\* after build(), ConFrames read and moved from, cursors from begin() and
\* from end(), a writer.
NextEngineCalls ==
    \/ ConFrameBuilder(1, {1})
    \/ add_atom(1, "H", 1)
    \/ add_atom_with_velocity(1, "H", 1)
    \/ Obtainable(1) /\ build(1)
    \/ Obtainable(1) /\ read_first_frame
    \/ \E src, dst \in FrameIds : MoveConstruct(src, dst)
    \/ \E f \in FrameIds : Accessor(f, "cell")
    \/ ConFrameIterator
    \/ Obtainable(1) /\ begin(1)
    \/ end(1)
    \/ (sess.pos < Len(file) => Obtainable(1)) /\ operator_increment(1)
    \/ \E w \in WriterIds : ConFrameWriter(w)
    \/ \E w \in WriterIds : \E batch \in Batches : extend(w, batch)

SpecEngineCalls == InitWriter /\ [][NextEngineCalls]_vars

\* ------------------------------------------------------------------ claims
\* What the accessors are to return for the frame the engine holds: its
\* numeric data as it stands, and each header line, "" when it is absent.
LineOrEmpty(line) == IF line = <<>> THEN "" ELSE line[1]
EngineValue(d, w) ==
    CASE w = "cell" -> d.cell
      [] w = "angles" -> d.angles
      [] w = "atoms" -> d.atoms
      [] w = "prebox_header" -> <<LineOrEmpty(d.hdr[1]), LineOrEmpty(d.hdr[2])>>
      [] w = "postbox_header" -> <<LineOrEmpty(d.hdr[3]), LineOrEmpty(d.hdr[4])>>
      [] w = "has_velocities" -> d.has_velocities

\* The first snapshot request made for h was answered with data.
FirstFetchSucceeded(h) == snapCalls[h] >= 1 /\ snapFails[h] = 0

\* C1: for a Frame whose first materialization succeeds, whatever accessors
\* are called and however often, the engine receives exactly one snapshot
\* request and exactly one request per header line; the Frame stays cached
\* with exactly the engine's data (the atom list does not grow), and every
\* accessor call returns that same value.
C1_SingleFetch ==
    /\ \A h \in Handles : FirstFetchSucceeded(h) =>
          snapCalls[h] = 1 /\ hdrCalls[h] = <<1, 1, 1, 1>>
    /\ \A f \in FrameIds :
          (frames[f].alive /\ FirstFetchSucceeded(frames[f].frame_handle_)) =>
             /\ frames[f].is_cached_
             /\ \A w \in Accessors :
                   CacheField(frames[f], w) =
                       EngineValue(hdata[frames[f].frame_handle_], w)
    /\ (ret.op \in Accessors /\ FirstFetchSucceeded(frames[ret.f].frame_handle_)) =>
          /\ ret.st = "ok"
          /\ ret.val = EngineValue(hdata[frames[ret.f].frame_handle_], ret.op)

\* C1's case: an accessor call on an already materialized Frame returned the
\* atoms without asking the engine.
C1_Witness ==
    /\ ret.op = "atoms" /\ ret.st = "ok" /\ ret.snap = "none"
    /\ Len(ret.val) = 2
    /\ snapCalls[frames[ret.f].frame_handle_] = 1

\* C7: an accessor call whose snapshot request the engine answers with
\* nothing throws and leaves the Frame unmaterialized; a Frame is cached only
\* when some snapshot request for its handle was answered with data.
C7_NullSnapshotThrows ==
    /\ (ret.op \in Accessors /\ ret.snap = "null") =>
          ret.st = "throw" /\ ~frames[ret.f].is_cached_
    /\ \A f \in FrameIds :
          (frames[f].alive /\ frames[f].is_cached_) =>
             snapCalls[frames[f].frame_handle_] > snapFails[frames[f].frame_handle_]

\* C7's case: the engine answered null and the accessor threw.
C7_Witness ==
    /\ ret.op \in Accessors /\ ret.snap = "null" /\ ret.st = "throw"
    /\ snapFails[frames[ret.f].frame_handle_] >= 1

\* C8: a materialization whose snapshot succeeds succeeds whatever header
\* lines are absent; each header holds exactly 2 strings, "" for a line the
\* engine reports absent and the engine's text for one it reports present.
C8_AbsentHeaderIsEmpty ==
    /\ (ret.op \in Accessors /\ ret.snap = "data") =>
          ret.st = "ok" /\ frames[ret.f].is_cached_
    /\ \A f \in FrameIds :
          /\ Len(frames[f].prebox_header_cache_) = 2
          /\ Len(frames[f].postbox_header_cache_) = 2
          /\ (frames[f].alive /\ frames[f].is_cached_) =>
                \A i \in 1..2 :
                   LET hdr == hdata[frames[f].frame_handle_].hdr
                   IN  /\ frames[f].prebox_header_cache_[i] =
                            (IF hdr[i] = <<>> THEN "" ELSE hdr[i][1])
                       /\ frames[f].postbox_header_cache_[i] =
                            (IF hdr[2 + i] = <<>> THEN "" ELSE hdr[2 + i][1])
    /\ (ret.op \in {"prebox_header", "postbox_header"} /\ ret.st = "ok") =>
          Len(ret.val) = 2

\* C8's case: postbox_header() returned on a frame whose second postbox
\* line (and first prebox line) is absent and whose first postbox line is
\* present.
C8_Witness ==
    /\ ret.op = "postbox_header" /\ ret.st = "ok" /\ ret.val = <<"X", "">>
    /\ hdata[frames[ret.f].frame_handle_].hdr[1] = <<>>
    /\ hdata[frames[ret.f].frame_handle_].hdr[3] = <<"X">>
    /\ hdata[frames[ret.f].frame_handle_].hdr[4] = <<>>

BuilderOwners(h) ==
    {b \in BuilderIds : builders[b].alive /\ builders[b].builder_handle_ = h}

\* C4: a builder handle the engine handed out is held by at most one
\* builder; while one holds it, it was neither consumed nor released; once
\* none holds it, it was consumed by build() or released, once in all.
C4_BuilderHandleOnce ==
    \A h \in BuilderHandles :
       ebst[h] # "none" =>
          /\ Cardinality(BuilderOwners(h)) <= 1
          /\ ebcons[h] + ebrel[h] = (IF BuilderOwners(h) = {} THEN 1 ELSE 0)

\* C4's case: every builder is destroyed; one handle was consumed by
\* build(), another released.
C4_Witness ==
    /\ \A b \in BuilderIds : ~builders[b].alive
    /\ \E h1, h2 \in BuilderHandles : ebcons[h1] = 1 /\ ebrel[h2] = 1

\* The position of the first atom of atomic number z among the atoms given
\* to a builder.
FirstGiven(given, z) ==
    CHOOSE i \in 1..Len(given) :
        /\ AtomicNumber(given[i].symbol) = z
        /\ \A j \in 1..(i - 1) : AtomicNumber(given[j].symbol) # z

\* The atom list out holds the atoms given, as contiguous runs of one
\* species each, the runs in first-occurrence order, each run in insertion
\* order.
GroupedStably(given, out) ==
    /\ Len(out) = Len(given)
    /\ \A i \in 1..Len(given) : \E j \in 1..Len(out) :
          /\ out[j].atom_id = given[i].atom_id
          /\ out[j].atomic_number = AtomicNumber(given[i].symbol)
          /\ <<out[j].x, out[j].y, out[j].z>> = <<given[i].x, given[i].y, given[i].z>>
          /\ out[j].is_fixed = given[i].is_fixed
          /\ out[j].has_velocity = (given[i].vel # <<>>)
    /\ \A i, j, k \in 1..Len(out) :
          (i < j /\ j < k /\ out[i].atomic_number = out[k].atomic_number) =>
             out[j].atomic_number = out[i].atomic_number
    /\ \A p, q \in 1..Len(out) :
          p < q =>
             IF out[p].atomic_number = out[q].atomic_number
             THEN out[p].atom_id < out[q].atom_id
             ELSE FirstGiven(given, out[p].atomic_number) <
                     FirstGiven(given, out[q].atomic_number)

\* C5: the atoms() of a Frame returned by build() are the atoms the builder
\* accepted, regrouped into one contiguous run per species, runs in
\* first-occurrence order, insertion order kept inside a run.
C5_GroupedBySpecies ==
    /\ \A f \in FrameIds :
          (frames[f].alive /\ frames[f].is_cached_
             /\ builtFrom[frames[f].frame_handle_] # 0) =>
             GroupedStably(ebatoms[builtFrom[frames[f].frame_handle_]],
                           frames[f].atoms_cache_)
    /\ (ret.op = "atoms" /\ ret.st = "ok"
          /\ builtFrom[frames[ret.f].frame_handle_] # 0) =>
             GroupedStably(ebatoms[builtFrom[frames[ret.f].frame_handle_]], ret.val)

\* C5's case: atoms given as O, H, H, O come back from atoms() as O, O, H, H.
C5_Witness ==
    /\ ret.op = "atoms" /\ ret.st = "ok"
    /\ builtFrom[frames[ret.f].frame_handle_] # 0
    /\ Len(ebatoms[builtFrom[frames[ret.f].frame_handle_]]) = 4
    /\ [i \in 1..4 |-> ebatoms[builtFrom[frames[ret.f].frame_handle_]][i].symbol]
          = <<"O", "H", "H", "O">>
    /\ [i \in 1..4 |-> ret.val[i].atom_id] = <<0, 3, 1, 2>>

\* C6: no Frame comes from a builder that accepted atoms both with and
\* without velocity: build() on it throws, every Frame build() returns holds
\* a frame the engine built from unmixed atoms, and a materialized Frame's
\* has_velocities agrees with has_velocity of every one of its atoms.
C6_Homogeneous ==
    /\ (ret.op = "build" /\ ret.st = "ok") =>
          /\ frames[ret.f].frame_handle_ # NullHandle
          /\ builtFrom[frames[ret.f].frame_handle_] # 0
    /\ \A h \in Handles :
          builtFrom[h] # 0 => ~Mixed(ebatoms[builtFrom[h]])
    /\ \A f \in FrameIds :
          (frames[f].alive /\ frames[f].is_cached_) =>
             \A i \in 1..Len(frames[f].atoms_cache_) :
                frames[f].atoms_cache_[i].has_velocity =
                   frames[f].has_velocities_cache_

\* C6's case: build() threw on a builder that had accepted an atom without
\* velocity and one with.
C6_Witness ==
    /\ ret.op = "build" /\ ret.st = "throw" /\ ~ret.val.built
    /\ \E h \in BuilderHandles : ebst[h] = "consumed" /\ Mixed(ebatoms[h])

\* The live ConFrames whose frame_handle_ is h.
FrameOwners(h) ==
    {f \in FrameIds : frames[f].alive /\ frames[f].frame_handle_ = h}

\* C2: every frame handle this layer obtained (from read_first_frame,
\* read_all_frames, a cursor's fetch or build()) is held by at most one live
\* ConFrame, and after any moves, fetches and destructions it has been
\* released once if no ConFrame holds it and not at all if one does.
C2_FrameHandleOnce ==
    \A h \in Handles :
       hst[h] # "none" =>
          /\ Cardinality(FrameOwners(h)) <= 1
          /\ hrel[h] = (IF FrameOwners(h) = {} THEN 1 ELSE 0)

\* A move assignment between two ConFrames has handed the source's handle,
\* one that build() produced, to a target a cursor owns, and released the
\* handle the target held, which the cursor had fetched.
C2_Witness ==
    /\ ret.op = "ConFrame=" /\ ret.val[1] # ret.f
    /\ HeldByCursor(ret.f)
    /\ frames[ret.f].frame_handle_ # NullHandle
    /\ builtFrom[frames[ret.f].frame_handle_] # 0
    /\ frames[ret.val[1]].frame_handle_ = NullHandle
    /\ \E i \in 1..Len(yielded[1]) : hrel[yielded[1][i]] = 1

\* The cursor in slot c, after the step, is the object it was before.
SameCursor(c) == cursors'[c] = cursors[c]

\* C9: a cursor to whose fetch the engine has returned nothing holds no
\* current frame and compares equal to end(), in every state from then on;
\* a further advance of it changes neither the cursor nor any frame, handle
\* or the session.
C9_ExhaustedStays ==
    /\ [](\A c \in CursorIds :
            (cursors[c].alive /\ cursors[c].exhausted) =>
               /\ cursors[c].current_frame_ = 0
               /\ ~operator_ne(cursors[c], EndIterator)
               /\ ~operator_ne(EndIterator, cursors[c]))
    /\ [][\A c \in CursorIds :
            (cursors[c].alive /\ cursors[c].exhausted /\ cursors'[c].alive) =>
               /\ SameCursor(c)
               /\ (ret'.op = "++" /\ ret'.val.c = c) =>
                     UNCHANGED <<frames, hst, hdata, hrel, sess, yielded>>]_vars

\* A cursor from begin() that has held both frames of the file and found
\* the end has been advanced once more.
C9_Witness ==
    /\ ret.op = "++" /\ ret.val.was
    /\ cursors[ret.val.c].iterator_ptr_ # NullHandle
    /\ cursors[ret.val.c].exhausted
    /\ Len(yielded[ret.val.c]) = 2

\* What the accessors of a ConFrame on handle h return.
FrameValue(h) ==
    [w \in Accessors |->
       CacheField(cache_data(NewConFrame(h), h, <<hdata[h]>>).fr, w)]

\* The cursor in slot c came from begin() and every frame the session has
\* produced went to it.
SoleCursor(c) ==
    /\ cursors[c].alive /\ cursors[c].iterator_ptr_ # NullHandle
    /\ Len(yielded[c]) = sess.pos

\* C10: a cursor from begin() that alone advances through a file of F frames
\* holds a frame until the engine has returned nothing; when it compares
\* equal to end() it has held exactly F frames, the i-th being the i-th
\* frame on disk, and these are field for field the frames read_all_frames
\* returned for the file.
C10_IterationIsReadAll ==
    \A c \in CursorIds :
       SoleCursor(c) =>
          /\ (cursors[c].current_frame_ = 0) <=> cursors[c].exhausted
          /\ ~operator_ne(cursors[c], EndIterator) =>
                /\ Len(yielded[c]) = Len(file)
                /\ \A i \in 1..Len(file) : hdata[yielded[c][i]] = file[i]
                /\ allread # <<NullHandle>> =>
                      /\ Len(allread) = Len(yielded[c])
                      /\ \A i \in 1..Len(allread) :
                            FrameValue(allread[i]) = FrameValue(yielded[c][i])

\* A file of two different frames has been read whole and iterated to the
\* end by one cursor.
C10_Witness ==
    /\ Len(file) = 2 /\ file[1] # file[2]
    /\ Len(allread) = 2
    /\ \E c \in CursorIds :
          /\ SoleCursor(c) /\ cursors[c].exhausted
          /\ Len(yielded[c]) = 2

\* The engine next-frame requests the last operation made.
Requests == Len(ret.val.asked)

\* C11 as stated: when the construction of a ConFrameIterator returns,
\* exactly one engine next-frame request has been made.
C11_FetchAtConstruction ==
    (ret.op = "ConFrameIterator" /\ ret.st = "ok") => Requests = 1

\* C11, amended: when the construction of a ConFrameIterator returns, the
\* session is open and no next-frame request has been made; begin() on it
\* makes exactly one, to that session, before it returns, so that the cursor
\* holds the first frame or is at the end before the caller advances it.
C11_FetchAtBegin ==
    /\ (ret.op = "ConFrameIterator" /\ ret.st = "ok") =>
          /\ Requests = 0
          /\ sess.st = "open" /\ sess.pos = 0
          /\ iterobj.alive /\ iterobj.iterator_ptr_ = SessionHandle
    /\ ret.op = "begin" =>
          /\ ret.val.asked = <<iterobj.iterator_ptr_>>
          /\ iterobj.iterator_ptr_ # NullHandle
          /\ (cursors[ret.val.c].current_frame_ = 0) <=>
                cursors[ret.val.c].exhausted

\* begin() has returned a cursor that holds the first frame of the file.
C11_Witness ==
    /\ ret.op = "begin" /\ ret.f # 0
    /\ sess.pos = 1
    /\ hdata[frames[ret.f].frame_handle_] = file[1]

\* C12: the session of one ConFrameIterator only moves forward.  Every
\* begin() or advance that leaves its cursor holding a frame has taken the
\* frame on disk that follows the last one any cursor of the ConFrameIterator
\* was given, in a handle never given before; so each frame is yielded at
\* most once, in on-disk order, and a later begin() does not yield the first
\* frame again.
C12_ForwardOnly ==
    [][/\ sess'.pos >= sess.pos
       /\ (ret'.op \in {"begin", "++"} /\ ret'.f # 0) =>
             /\ sess'.pos = sess.pos + 1
             /\ hst[frames'[ret'.f].frame_handle_] = "none"
             /\ hdata'[frames'[ret'.f].frame_handle_] = file[sess'.pos]
             /\ \A c \in CursorIds :
                   cursors[c].alive =>
                      \A i \in 1..Len(yielded[c]) :
                         yielded[c][i] # frames'[ret'.f].frame_handle_
       /\ (ret'.op = "begin" /\ ret'.f # 0 /\ sess.pos > 0) =>
             hdata'[frames'[ret'.f].frame_handle_] = file[sess.pos + 1]]_vars

\* A second begin() on the same ConFrameIterator, while the first cursor
\* still holds the first frame, has returned a cursor on the second frame.
C12_Witness ==
    /\ ret.op = "begin" /\ ret.f # 0 /\ ret.val.c = 2
    /\ sess.pos = 2
    /\ cursors[1].alive /\ cursors[1].current_frame_ # 0
    /\ hdata[frames[cursors[1].current_frame_].frame_handle_] = file[1]
    /\ hdata[frames[ret.f].frame_handle_] = file[2]
    /\ file[1] # file[2]

\* C14: extend() with an empty batch makes no engine write call, returns
\* without throwing, and leaves the writers, the engine's writer sessions and
\* their files, the ConFrames and the frame handles as they were, whatever
\* extend calls came before.
C14_EmptyBatchNoOp ==
    [][(ret'.op = "extend" /\ ret'.val.batch = <<>>) =>
          /\ ret'.st = "ok"
          /\ ret'.val.asked = <<>>
          /\ UNCHANGED <<writers, wsess, frames, hst, hrel>>]_vars

\* extend() with an empty batch has returned on a writer whose file already
\* holds a frame.
C14_Witness ==
    /\ ret.op = "extend" /\ ret.val.batch = <<>> /\ ret.st = "ok"
    /\ wsess[writers[ret.val.w].writer_handle_].out # <<>>

C13_SessionReleasedOnce ==
    /\ iterobj.alive <=> sess.st = "open"
    /\ sess.rel = (IF sess.st = "freed" THEN 1 ELSE 0)
    /\ \A w \in WriterIds :
         writers[w].alive =>
           /\ writers[w].writer_handle_ # NullHandle
           /\ wsess[writers[w].writer_handle_].st = "open"
    /\ \A h \in WriterIds :
         /\ wsess[h].rel = (IF wsess[h].st = "freed" THEN 1 ELSE 0)
         /\ wsess[h].st = "open" =>
              \E w \in WriterIds : writers[w].alive /\ writers[w].writer_handle_ = h
    /\ (ret.op \in {"begin", "++"} /\ ret.val.asked # <<>>
          /\ ret.val.asked[1] # NullHandle) => sess.st = "open"
    /\ (ret.op = "extend" /\ ret.val.asked # <<>>
          /\ ret.val.asked[1] # NullHandle) => wsess[ret.val.asked[1]].st = "open"


\* C16: a read_all_frames that succeeds on a file of n frames returns n
\* ConFrames in on-disk order, the i-th one the only owner of the i-th handle
\* of the engine's array; releasing the array released none of these
\* handles; afterwards a handle is released only by the destruction of the
\* ConFrame that owns it, which releases no other handle, and once its owner
\* is gone it has been released exactly once.
C16_ReadAllOwnsEach ==
    /\ []((ret.op = "read_all_frames" /\ ret.st = "ok") =>
            /\ Len(ret.val) = Len(file) /\ Len(allread) = Len(file)
            /\ \A i \in 1..Len(file) :
                 /\ allread[i] # NullHandle
                 /\ FrameOwners(allread[i]) = {ret.val[i]}
                 /\ hdata[allread[i]] = file[i]
                 /\ hst[allread[i]] = "live" /\ hrel[allread[i]] = 0
                 /\ \A k \in 1..Len(file) : k < i => ret.val[k] < ret.val[i])
    /\ [](\A h \in Handles :
            hst[h] # "none" =>
               /\ Cardinality(FrameOwners(h)) <= 1
               /\ hst[h] = (IF FrameOwners(h) = {} THEN "freed" ELSE "live")
               /\ hrel[h] = (IF FrameOwners(h) = {} THEN 1 ELSE 0))
    /\ [][\A h \in Handles :
            hrel'[h] # hrel[h] =>
               /\ ret'.op = "~ConFrame"
               /\ frames[ret'.f].frame_handle_ = h]_vars

\* Of the two ConFrames of one read_all_frames, the first has been destroyed
\* and released its handle; the second still answers from its own handle,
\* which has not been released.
C16_Witness ==
    /\ ret.op = "cell" /\ ret.st = "ok"
    /\ Len(allread) = 2
    /\ frames[ret.f].frame_handle_ = allread[2]
    /\ hrel[allread[1]] = 1 /\ FrameOwners(allread[1]) = {}
    /\ hrel[allread[2]] = 0 /\ hst[allread[2]] = "live"
    /\ hdata[allread[2]] = file[2]


\* The handle of the ConFrame cursor c holds, or null when it holds none.
HeldHandle(c) ==
    IF cursors[c].alive /\ cursors[c].current_frame_ # 0
    THEN frames[cursors[c].current_frame_].frame_handle_ ELSE NullHandle

\* C17: every begin() and every advance of a cursor makes exactly one engine
\* next-frame request.  When the engine answers with a frame, that frame, in
\* a handle not seen before, is what the cursor holds afterwards, and the
\* ConFrame it held before is gone: its handle, unreleased until then, has
\* been released once and no other handle has been released.  At any time at
\* most one of the handles a cursor was given is unreleased: the one of the
\* frame it holds.
C17_OneRequestOneFrame ==
    /\ [][ret'.op \in {"begin", "++"} =>
            LET c == ret'.val.c
                old == HeldHandle(c)
            IN  /\ Len(ret'.val.asked) = 1
                /\ cursors'[c].current_frame_ = ret'.f
                /\ ret'.f # 0 =>
                     /\ hst[frames'[ret'.f].frame_handle_] = "none"
                     /\ hst'[frames'[ret'.f].frame_handle_] = "live"
                     /\ yielded'[c] = Append(IF ret'.op = "begin" THEN <<>>
                                             ELSE yielded[c],
                                             frames'[ret'.f].frame_handle_)
                     /\ old # NullHandle =>
                          /\ hrel[old] = 0 /\ hrel'[old] = 1
                          /\ hst'[old] = "freed"
                          /\ \A f \in FrameIds :
                               frames'[f].alive => frames'[f].frame_handle_ # old
                     /\ \A h \in Handles : h # old => hrel'[h] = hrel[h]]_vars
    /\ [](\A c \in CursorIds :
            cursors[c].alive =>
               \A i \in 1..Len(yielded[c]) :
                  IF yielded[c][i] = HeldHandle(c)
                  THEN hrel[yielded[c][i]] = 0 /\ i = Len(yielded[c])
                  ELSE hrel[yielded[c][i]] = 1)

\* An advance has replaced the first frame a cursor held by the second: the
\* first frame's handle has been released once, the second is held.
C17_Witness ==
    /\ ret.op = "++" /\ ret.f # 0
    /\ Len(yielded[ret.val.c]) = 2
    /\ hrel[yielded[ret.val.c][1]] = 1
    /\ hst[yielded[ret.val.c][1]] = "freed"
    /\ HeldHandle(ret.val.c) = yielded[ret.val.c][2]
    /\ hrel[yielded[ret.val.c][2]] = 0


\* C18: a materialization that returns normally has passed the snapshot
\* record it obtained to free_c_frame exactly once, and every header-line
\* buffer that was not null to rkr_free_string exactly once; a null header
\* buffer was not passed to rkr_free_string, and nothing it obtained is left
\* unreleased.
C18_TransientsReleased ==
    (ret.op \in Accessors /\ ret.st = "ok" /\ ret.snap = "data") =>
       /\ Len(ret.bufs.c_frames) = 1
       /\ ret.bufs.free_c_frame = ret.bufs.c_frames
       /\ Len(ret.bufs.c_strs) = 4 /\ Len(ret.bufs.rkr_free_string) = 4
       /\ \A i \in 1..4 :
            /\ \A k \in 1..Len(ret.bufs.rkr_free_string[i]) :
                  ret.bufs.rkr_free_string[i][k] # <<>>
            /\ ret.bufs.rkr_free_string[i] =
                 (IF ret.bufs.c_strs[i] = <<>> THEN <<>>
                  ELSE <<ret.bufs.c_strs[i]>>)

\* A materialization has returned normally for a frame with a null header
\* buffer and one that is not null: the snapshot and the buffer that is not
\* null were released.
C18_Witness ==
    /\ ret.op \in Accessors /\ ret.st = "ok" /\ ret.snap = "data"
    /\ ret.bufs.free_c_frame # <<>>
    /\ \E i, k \in 1..4 :
         /\ ret.bufs.c_strs[i] = <<>>
         /\ ret.bufs.c_strs[k] # <<>>
         /\ ret.bufs.rkr_free_string[k] = <<ret.bufs.c_strs[k]>>


\* C19: after a ConFrame S has been moved into another ConFrame D, by
\* construction or by assignment, D alone owns the handle S owned, unreleased,
\* and D's accessors return that handle's data; S owns no handle, so that its
\* destruction releases nothing and a handle is released once when no
\* ConFrame owns it; and no accessor called on a ConFrame that owns no handle
\* returns a value: it throws, whether or not the ConFrame was materialized
\* before it was moved from.
C19_MovedFromIsInert ==
    /\ (ret.op \in {"ConFrame(&&)", "ConFrame="} /\ ret.val[1] # ret.f) =>
          /\ frames[ret.val[1]].frame_handle_ = NullHandle
          /\ FrameDeleter(frames[ret.val[1]].frame_handle_) = {}
          /\ frames[ret.f].frame_handle_ # NullHandle =>
                /\ FrameOwners(frames[ret.f].frame_handle_) = {ret.f}
                /\ hst[frames[ret.f].frame_handle_] = "live"
    /\ \A h \in Handles :
          hst[h] # "none" => hrel[h] = (IF FrameOwners(h) = {} THEN 1 ELSE 0)
    /\ (ret.op \in Accessors /\ ret.st = "ok"
          /\ frames[ret.f].frame_handle_ # NullHandle) =>
             ret.val = EngineValue(hdata[frames[ret.f].frame_handle_], ret.op)
    /\ (ret.op \in Accessors /\ frames[ret.f].frame_handle_ = NullHandle) =>
          ret.st = "throw"


\* C20: every handle this layer passes to the engine is a live handle and
\* not null: the frame handle of a snapshot or header-line request, the
\* session of a next-frame request, the writer session and every frame handle
\* of an extend call, the builder handle of an add or a build.
C20_OnlyLiveHandles ==
    /\ (ret.op \in Accessors /\ ret.snap # "none") =>
          /\ frames[ret.f].frame_handle_ # NullHandle
          /\ hst[frames[ret.f].frame_handle_] = "live"
    /\ ret.op \in {"begin", "++"} =>
          \A i \in 1..Len(ret.val.asked) :
             ret.val.asked[i] # NullHandle /\ sess.st = "open"
    /\ ret.op = "extend" =>
          /\ \A i \in 1..Len(ret.val.asked) :
                /\ ret.val.asked[i] # NullHandle
                /\ wsess[ret.val.asked[i]].st = "open"
          /\ \A i \in 1..Len(ret.val.handles) :
                /\ ret.val.handles[i] # NullHandle
                /\ hst[ret.val.handles[i]] = "live"
    /\ ret.op \in {"add_atom", "add_atom_with_velocity", "build"} =>
          \A i \in 1..Len(ret.val.asked) : ret.val.asked[i] # NullHandle

====
